---- MODULE Spec2Model ----
(***************************************************************************)
(* GEX monitor worker: the gamma-exposure engine calculateGEX and the      *)
(* day-scoped IV history kept in the key-value store (storeIVHistory).     *)
(*                                                                         *)
(* Numbers.  Prices (strikes, spot, gamma flip) are integers counting      *)
(* thousandths, so "0.025" is 25 and the two-decimal grid of toFixed(2)    *)
(* is the multiples of 10.  Gamma, open interest, volume and volatility    *)
(* are integers.  Quotients (the interpolated crossing, the ATM average)   *)
(* are kept exact as fractions [num, den]; IEEE rounding of the doubles    *)
(* is not modelled.                                                        *)
(*                                                                         *)
(* A JavaScript value that may be null/undefined is a sequence of length   *)
(* at most one: None is null, Some(v) is the value v.                      *)
(***************************************************************************)
EXTENDS Integers, Sequences, FiniteSets, TLC

None == <<>>
Some(v) == <<v>>
IsSome(o) == o # None
Val(o) == o[1]

(* x ?? d *)
OrElse(o, d) == IF o = None THEN d ELSE Val(o)

Abs(x) == IF x < 0 THEN -x ELSE x

Min(a, b) == IF a < b THEN a ELSE b

Range(s) == {s[i] : i \in DOMAIN s}

(* Array.prototype.slice(-n): the last n elements, all of them when fewer *)
SliceLast(s, n) == IF Len(s) <= n THEN s ELSE SubSeq(s, Len(s) - n + 1, Len(s))

(* Array.prototype.slice(0, n) *)
SliceFirst(s, n) == IF Len(s) <= n THEN s ELSE SubSeq(s, 1, n)

(***************************************************************************)
(* Strike keys are strings; a string is a tuple of one-character strings.  *)
(***************************************************************************)
Digits == <<"0", "1", "2", "3", "4", "5", "6", "7", "8", "9">>

DigitVal(c) == (CHOOSE i \in DOMAIN Digits : Digits[i] = c) - 1

RECURSIVE DigitsValue(_)
DigitsValue(cs) ==
  IF cs = <<>> THEN 0
  ELSE 10 * DigitsValue(SubSeq(cs, 1, Len(cs) - 1)) + DigitVal(cs[Len(cs)])

RECURSIVE Pow10(_)
Pow10(n) == IF n = 0 THEN 1 ELSE 10 * Pow10(n - 1)

(* prices count thousandths *)
PriceScale == Pow10(3)

(* the position of the decimal point, Len + 1 when there is none *)
DotPos(cs) ==
  IF \E i \in DOMAIN cs : cs[i] = "."
  THEN CHOOSE i \in DOMAIN cs : cs[i] = "." /\ \A j \in 1..(i - 1) : cs[j] # "."
  ELSE Len(cs) + 1

(* parseFloat of a decimal literal with at most three fraction digits *)
parseFloat(cs) ==
  LET dot  == DotPos(cs)
      ip   == SubSeq(cs, 1, dot - 1)
      fp   == SubSeq(cs, dot + 1, Len(cs))
  IN  DigitsValue(ip) * PriceScale + DigitsValue(fp) * Pow10(3 - Len(fp))

RECURSIVE NatToString(_)
NatToString(n) ==
  IF n < 10 THEN <<Digits[n + 1]>>
  ELSE Append(NatToString(n \div 10), Digits[(n % 10) + 1])

RECURSIVE StripZeros(_)
StripZeros(cs) ==
  IF cs # <<>> /\ cs[Len(cs)] = "0" THEN StripZeros(SubSeq(cs, 1, Len(cs) - 1)) ELSE cs

(* Number.prototype.toString: the shortest decimal, used as the property key *)
NumberToString(n) ==
  LET ip   == NatToString(n \div PriceScale)
      f    == n % PriceScale
      f3   == <<Digits[(f \div 100) + 1], Digits[((f \div 10) % 10) + 1], Digits[(f % 10) + 1]>>
      frac == StripZeros(f3)
  IN  IF frac = <<>> THEN ip ELSE ip \o <<".">> \o frac

(* Number(key) of a property key *)
Number(cs) == parseFloat(cs)

(* String.prototype.split(c)[0]: the text before the first c *)
SplitFirst(cs, c) ==
  IF \E i \in DOMAIN cs : cs[i] = c
  THEN SubSeq(cs, 1, (CHOOSE i \in DOMAIN cs : cs[i] = c /\ \A j \in 1..(i - 1) : cs[j] # c) - 1)
  ELSE cs

(* the default comparison of Array.prototype.sort on digit strings: by code unit *)
RECURSIVE StrLess(_, _)
StrLess(a, b) ==
  IF b = <<>> THEN FALSE
  ELSE IF a = <<>> THEN TRUE
  ELSE IF a[1] # b[1] THEN DigitVal(a[1]) < DigitVal(b[1])
  ELSE StrLess(Tail(a), Tail(b))

(* Array.prototype.sort() of strings: a stable insertion sort by code unit *)
RECURSIVE InsertString(_, _)
InsertString(s, x) ==
  IF s = <<>> THEN <<x>>
  ELSE IF StrLess(x, s[1]) THEN <<x>> \o s
  ELSE <<s[1]>> \o InsertString(Tail(s), x)

RECURSIVE SortStrings(_)
SortStrings(s) ==
  IF s = <<>> THEN <<>>
  ELSE InsertString(SortStrings(SubSeq(s, 1, Len(s) - 1)), s[Len(s)])

(* Array.prototype.sort((a, b) => a - b): a stable insertion sort of numbers *)
RECURSIVE InsertNumber(_, _)
InsertNumber(s, x) ==
  IF s = <<>> THEN <<x>>
  ELSE IF x - s[1] < 0 THEN <<x>> \o s
  ELSE <<s[1]>> \o InsertNumber(Tail(s), x)

RECURSIVE SortNumbers(_)
SortNumbers(s) ==
  IF s = <<>> THEN <<>>
  ELSE InsertNumber(SortNumbers(SubSeq(s, 1, Len(s) - 1)), s[Len(s)])

(***************************************************************************)
(* calculateGEX.  A side of the chain (callExpDateMap, putExpDateMap) is   *)
(* None when the map is absent, else the sequence of its entries in the    *)
(* order the two nested Object.entries loops visit them, each entry        *)
(* [expDateStr, strikeStr, contracts]; contracts is the contract list of   *)
(* the strike (a single contract is a list of one).                        *)
(***************************************************************************)

(* cleanIV: the volatility, or null when it is missing or out of range *)
cleanIV(v) ==
  IF v = None \/ Val(v) < 0 \/ Val(v) > 500 THEN None ELSE v

(* the fresh accumulator of a strike *)
NewStrike ==
  [callGex |-> 0, putGex |-> 0, callOI |-> 0, putOI |-> 0,
   callVol |-> 0, putVol |-> 0, callIV |-> None, putIV |-> None]

(* byStrike is the sequence of [key, d] properties in insertion order *)
HasKey(byStrike, key) == \E i \in DOMAIN byStrike : byStrike[i].key = key

KeyIndex(byStrike, key) == CHOOSE i \in DOMAIN byStrike : byStrike[i].key = key

(* a missing gamma defaulting to 1 in the exposure *)
LegGexDefaultOne(gamma, oi, spotPrice) ==
  IF gamma = 0 THEN oi * spotPrice * spotPrice ELSE gamma * oi * spotPrice * spotPrice

(* the put-side convention of another build: the magnitude of gamma *)
LegGexAbs(gamma, oi, spotPrice) == Abs(gamma) * oi * spotPrice * spotPrice

(* gamma x OI x 100 x spot^2 x 0.01 *)
LegGex(gamma, oi, spotPrice) == (gamma * oi * 100 * spotPrice * spotPrice) \div 100

(* the body of the inner loop of processMap for one [strikeStr, contracts] entry *)
processEntry(st, entry, isCall, spotPrice) ==
  LET expDate  == SplitFirst(entry.expDateStr, ":")
      dates    == IF expDate \in Range(st.expirationDates)
                  THEN st.expirationDates
                  ELSE Append(st.expirationDates, expDate)
      strike   == parseFloat(entry.strikeStr)
      contract == entry.contracts[1]
      gamma    == OrElse(contract.gamma, 0)
      oi       == OrElse(contract.openInterest, 0)
      vol      == OrElse(contract.totalVolume, 0)
      iv       == cleanIV(contract.volatility)
      gex      == LegGex(gamma, oi, spotPrice)
      key      == NumberToString(strike)
      bs       == IF HasKey(st.byStrike, key)
                  THEN st.byStrike
                  ELSE Append(st.byStrike, [key |-> key, d |-> NewStrike])
      i        == KeyIndex(bs, key)
      d        == bs[i].d
      d1       == IF isCall
                  THEN [d EXCEPT !.callGex = @ + gex, !.callOI = @ + oi, !.callVol = @ + vol,
                                 !.callIV = IF iv # None THEN iv ELSE @]
                  ELSE [d EXCEPT !.putGex = @ + gex, !.putOI = @ + oi, !.putVol = @ + vol,
                                 !.putIV = IF iv # None THEN iv ELSE @]
  IN  [byStrike |-> [bs EXCEPT ![i].d = d1], expirationDates |-> dates]

RECURSIVE processEntries(_, _, _, _)
processEntries(st, entries, isCall, spotPrice) ==
  IF entries = <<>> THEN st
  ELSE processEntries(processEntry(st, entries[1], isCall, spotPrice),
                      Tail(entries), isCall, spotPrice)

processMap(st, optionMap, isCall, spotPrice) ==
  IF optionMap = None THEN st
  ELSE processEntries(st, Val(optionMap), isCall, spotPrice)

(* the keys in insertion order, the sort forgotten *)
UnsortedStrikes(byStrike) ==
  [i \in DOMAIN byStrike |-> Number(byStrike[i].key)]

(* Object.keys(byStrike).map(Number).sort((a, b) => a - b) *)
SortedStrikes(byStrike) ==
  SortNumbers([i \in DOMAIN byStrike |-> Number(byStrike[i].key)])

(* Math.min(totalVol / totalOI, 10) as a fraction, 0 when there is no open interest *)
VolOIRatio(totalVol, totalOI) ==
  IF totalOI > 0
  THEN IF totalVol >= 10 * totalOI THEN [num |-> 10, den |-> 1]
       ELSE [num |-> totalVol, den |-> totalOI]
  ELSE [num |-> 0, den |-> 1]

(* the per-strike record of strikeData *)
StrikeRecord(byStrike, strike) ==
  LET d == byStrike[KeyIndex(byStrike, NumberToString(strike))].d
  IN  [strike |-> strike,
       callGex |-> d.callGex, putGex |-> d.putGex, netGex |-> d.callGex + d.putGex,
       callOI |-> d.callOI, putOI |-> d.putOI, totalOI |-> d.callOI + d.putOI,
       callVol |-> d.callVol, putVol |-> d.putVol, totalVol |-> d.callVol + d.putVol,
       volOIRatio |-> VolOIRatio(d.callVol + d.putVol, d.callOI + d.putOI),
       callIV |-> d.callIV, putIV |-> d.putIV]

StrikeData(byStrike, strikes) ==
  [i \in DOMAIN strikes |-> StrikeRecord(byStrike, strikes[i])]

(* a curve that adds each strike's net exposure to the start value, not to the running sum *)
RunningSumNoCarry(strikeData, running) ==
  [i \in DOMAIN strikeData |-> running + strikeData[i].netGex]

(* running += s.netGex; return running *)
RECURSIVE RunningSum(_, _)
RunningSum(strikeData, running) ==
  IF strikeData = <<>> THEN <<>>
  ELSE <<running + strikeData[1].netGex>>
       \o RunningSum(Tail(strikeData), running + strikeData[1].netGex)

AggregateGex(strikeData) == RunningSum(strikeData, 0)

(* two adjacent cumulative values straddle zero *)
IsCrossing(a, b) == (a < 0 /\ b >= 0) \/ (a >= 0 /\ b < 0)

(* the two magnitudes taken against the larger of them alone *)
RatioOverLarger(a, b) ==
  [num |-> Abs(a) + Abs(b), den |-> IF Abs(a) > Abs(b) THEN Abs(a) ELSE Abs(b)]

(* Math.abs(a) / (Math.abs(a) + Math.abs(b)) *)
Ratio(a, b) == [num |-> Abs(a), den |-> Abs(a) + Abs(b)]

(* the interpolation with the lower strike not subtracted: lo + ratio * hi *)
FlipPriceNoOffset(lo, hi, ratio) ==
  [num |-> lo * ratio.den + ratio.num * hi, den |-> ratio.den]

(* strikes[i - 1] + ratio * (strikes[i] - strikes[i - 1]) *)
FlipPrice(lo, hi, ratio) ==
  [num |-> lo * ratio.den + ratio.num * (hi - lo), den |-> ratio.den]

(* the loop collecting the interpolated zero crossings, from index i on *)
RECURSIVE CrossingsFrom(_, _, _)
CrossingsFrom(strikes, aggregateGex, i) ==
  IF i > Len(strikes) THEN <<>>
  ELSE LET a == aggregateGex[i - 1]
           b == aggregateGex[i]
       IN  (IF IsCrossing(a, b)
            THEN <<FlipPrice(strikes[i - 1], strikes[i], Ratio(a, b))>>
            ELSE <<>>)
           \o CrossingsFrom(strikes, aggregateGex, i + 1)

Crossings(strikes, aggregateGex) == CrossingsFrom(strikes, aggregateGex, 2)

(* Math.abs(curr - spotPrice) < Math.abs(prev - spotPrice) on fractions *)
Nearer(curr, prev, spotPrice) ==
  Abs(curr.num - spotPrice * curr.den) * prev.den
    < Abs(prev.num - spotPrice * prev.den) * curr.den

(* the first crossing kept whatever follows, as by a loop that breaks at it *)
ReduceFirst(prev, rest, spotPrice) == prev

(* crossings.reduce((prev, curr) => nearer(curr) ? curr : prev), prev the accumulator *)
RECURSIVE ReduceNearest(_, _, _)
ReduceNearest(prev, rest, spotPrice) ==
  IF rest = <<>> THEN prev
  ELSE ReduceNearest(IF Nearer(rest[1], prev, spotPrice) THEN rest[1] ELSE prev,
                     Tail(rest), spotPrice)

(* the crossing chosen as gamma flip, before rounding; null when there is none *)
ChooseFlip(crossings, spotPrice) ==
  IF Len(crossings) > 0 /\ spotPrice # 0
  THEN Some(ReduceNearest(crossings[1], Tail(crossings), spotPrice))
  ELSE IF Len(crossings) > 0 THEN Some(crossings[1])
  ELSE None

(* Number.prototype.toFixed(2) of a fraction x >= 0: the nearest hundredth, the
   larger one on a tie, written with two decimals *)
toFixed2(x) ==
  LET h == (2 * x.num + 10 * x.den) \div (20 * x.den)
  IN  NatToString(h \div 100) \o <<".">>
        \o <<Digits[((h \div 10) % 10) + 1], Digits[(h % 10) + 1]>>

(* if (gammaFlip) gammaFlip = parseFloat(gammaFlip.toFixed(2)) *)
RoundFlip(flip) ==
  IF flip = None THEN None
  ELSE IF Val(flip).num = 0 THEN Some(0)
  ELSE Some(parseFloat(toFixed2(Val(flip))))

(* strikeData.filter(s => s.strike >= spot * 0.60 && s.strike <= spot * 1.40) *)
InBand(strike, spotPrice) ==
  strike * 100 >= spotPrice * 60 /\ strike * 100 <= spotPrice * 140

RECURSIVE Filter(_, _)
Filter(strikeData, spotPrice) ==
  IF strikeData = <<>> THEN <<>>
  ELSE (IF InBand(strikeData[1].strike, spotPrice) THEN <<strikeData[1]>> ELSE <<>>)
       \o Filter(Tail(strikeData), spotPrice)

(* the call-wall loop: w = [wall, max], max None standing for -Infinity *)
RECURSIVE CallWallLoop(_, _)
CallWallLoop(inRange, w) ==
  IF inRange = <<>> THEN w
  ELSE LET s == inRange[1]
       IN  CallWallLoop(Tail(inRange),
             IF w.max = None \/ s.callGex > Val(w.max)
             THEN [wall |-> Some(s.strike), max |-> Some(s.callGex)]
             ELSE w)

(* the put-wall loop *)
RECURSIVE PutWallLoop(_, _)
PutWallLoop(inRange, w) ==
  IF inRange = <<>> THEN w
  ELSE LET s == inRange[1]
       IN  PutWallLoop(Tail(inRange),
             IF w.max = None \/ Abs(s.putGex) > Val(w.max)
             THEN [wall |-> Some(s.strike), max |-> Some(Abs(s.putGex))]
             ELSE w)

CallWall(inRange) == CallWallLoop(inRange, [wall |-> None, max |-> None]).wall

PutWall(inRange) == PutWallLoop(inRange, [wall |-> None, max |-> None]).wall

(* [...strikeData].sort by |strike - spot|: a stable insertion sort *)
RECURSIVE InsertByDistance(_, _, _)
InsertByDistance(s, x, spotPrice) ==
  IF s = <<>> THEN <<x>>
  ELSE IF Abs(x.strike - spotPrice) - Abs(s[1].strike - spotPrice) < 0 THEN <<x>> \o s
  ELSE <<s[1]>> \o InsertByDistance(Tail(s), x, spotPrice)

RECURSIVE SortByDistance(_, _)
SortByDistance(s, spotPrice) ==
  IF s = <<>> THEN <<>>
  ELSE InsertByDistance(SortByDistance(SubSeq(s, 1, Len(s) - 1), spotPrice),
                        s[Len(s)], spotPrice)

(* the IV readings of the candidates, call before put, strike by strike *)
RECURSIVE IvValues(_)
IvValues(candidates) ==
  IF candidates = <<>> THEN <<>>
  ELSE (IF candidates[1].callIV # None THEN <<Val(candidates[1].callIV)>> ELSE <<>>)
       \o (IF candidates[1].putIV # None THEN <<Val(candidates[1].putIV)>> ELSE <<>>)
       \o IvValues(Tail(candidates))

RECURSIVE SeqSum(_)
SeqSum(s) == IF s = <<>> THEN 0 ELSE s[1] + SeqSum(Tail(s))

(* the ATM IV block: the mean of the valid IVs of the 5 strikes nearest to spot *)
AtmIV(strikeData, spotPrice) ==
  IF spotPrice # 0 /\ Len(strikeData) > 0
  THEN LET sorted     == SortByDistance(strikeData, spotPrice)
           candidates == SliceFirst(sorted, 5)
           ivValues   == IvValues(candidates)
       IN  IF Len(ivValues) > 0
           THEN Some([num |-> SeqSum(ivValues), den |-> Len(ivValues)])
           ELSE None
  ELSE None

(* strikeData.find(s => s.strike === wall) *)
Find(strikeData, wall) ==
  IF \E i \in DOMAIN strikeData : strikeData[i].strike = wall
  THEN Some(strikeData[CHOOSE i \in DOMAIN strikeData :
              strikeData[i].strike = wall
              /\ \A j \in 1..(i - 1) : strikeData[j].strike # wall])
  ELSE None

(* cws.callIV ?? cws.putIV under if (callWall) and if (cws) *)
CallWallIV(strikeData, callWall) ==
  IF callWall # None /\ Val(callWall) # 0 /\ Find(strikeData, Val(callWall)) # None
  THEN LET cws == Val(Find(strikeData, Val(callWall)))
       IN  IF cws.callIV # None THEN cws.callIV ELSE cws.putIV
  ELSE None

PutWallIV(strikeData, putWall) ==
  IF putWall # None /\ Val(putWall) # 0 /\ Find(strikeData, Val(putWall)) # None
  THEN LET pws == Val(Find(strikeData, Val(putWall)))
       IN  IF pws.putIV # None THEN pws.putIV ELSE pws.callIV
  ELSE None

(* a profile of no strikes returned in place of null, as calcGEX of another build does *)
calculateGEXNoNull(chainData, spotPrice) ==
  Some([strikes |-> <<>>, aggregateGex |-> <<>>, gammaFlip |-> None, callWall |-> None,
        putWall |-> None, atmIV |-> None, callWallIV |-> None, putWallIV |-> None,
        expirationDates |-> <<>>])

(* calculateGEX(chainData, spotPrice): None for the null it returns on no strikes *)
calculateGEX(chainData, spotPrice) ==
  LET st0     == [byStrike |-> <<>>, expirationDates |-> <<>>]
      st1     == processMap(st0, chainData.callExpDateMap, TRUE, spotPrice)
      st2     == processMap(st1, chainData.putExpDateMap, FALSE, spotPrice)
      strikes == SortedStrikes(st2.byStrike)
  IN  IF Len(strikes) = 0 THEN None
      ELSE LET strikeData   == StrikeData(st2.byStrike, strikes)
               aggregateGex == AggregateGex(strikeData)
               crossings    == Crossings(strikes, aggregateGex)
               gammaFlip    == RoundFlip(ChooseFlip(crossings, spotPrice))
               inRange      == Filter(strikeData, spotPrice)
               callWall     == CallWall(inRange)
               putWall      == PutWall(inRange)
           IN  Some([strikes |-> strikeData,
                     aggregateGex |-> aggregateGex,
                     gammaFlip |-> gammaFlip,
                     callWall |-> callWall,
                     putWall |-> putWall,
                     atmIV |-> AtmIV(strikeData, spotPrice),
                     callWallIV |-> CallWallIV(strikeData, callWall),
                     putWallIV |-> PutWallIV(strikeData, putWall),
                     expirationDates |-> SortStrings(st2.expirationDates)])

(* null as an element of a contract list *)
Null == [null |-> TRUE]

(* contract.gamma on line 141 throws a TypeError when contracts[0] is undefined (an empty
   list) or null *)
ContractThrows(entry) ==
  IF entry.contracts = <<>> THEN TRUE ELSE entry.contracts[1] = Null

processMapThrows(optionMap) ==
  IF optionMap = None THEN FALSE
  ELSE \E i \in DOMAIN Val(optionMap) : ContractThrows(Val(optionMap)[i])

(* calculateGEX does not return: a TypeError leaves processMap *)
calculateGEXThrows(chainData) ==
  IF processMapThrows(chainData.callExpDateMap) THEN TRUE
  ELSE processMapThrows(chainData.putExpDateMap)

(***************************************************************************)
(* State.                                                                  *)
(***************************************************************************)
(*   chainData, spotPrice   the arguments of calculateGEX                  *)
(*   phase                  "idle" before the handler has a chain, "chain" *)
(*                          when it has one, or while the chain is being   *)
(*                          read, "returned" once calculateGEX returned,   *)
(*                          "threw" once an exception left it              *)
(*   gex                    what calculateGEX returned                     *)
(*   kv                     env.GEX_KV: key -> stored text, None when absent *)
(*   now                    the clock, Date.now()                          *)
(*   req                    the storeIVHistory calls in flight             *)
(*   calls                  how many storeIVHistory calls were started     *)
(*   appended, lastPut      history variables: per key, every record       *)
(*                          pushed so far, and the log read and the record *)
(*                          pushed by the call whose put landed last       *)
(*   http                   the request the fetch handler is serving: its  *)
(*                          position, what it was asked, what it did and   *)
(*                          what it answered                               *)
VARIABLES chainData, spotPrice, phase, gex, kv, now, req, calls, appended, lastPut, http

gexVars == <<chainData, spotPrice, phase, gex>>

histVars == <<kv, now, req, calls, appended, lastPut>>

vars == <<chainData, spotPrice, phase, gex, kv, now, req, calls, appended, lastPut, http>>

(* no request has arrived yet *)
NoRequest ==
  [pc |-> "idle", path |-> "", symbol |-> None, doom |-> FALSE, last |-> None,
   key |-> None, trace |-> <<>>, responses |-> <<>>, body |-> <<>>, kvBefore |-> None,
   at |-> 0, served |-> 0, calcLog |-> {}]

(***************************************************************************)
(* The IV history in the key-value store.                                  *)
(***************************************************************************)

(* history.slice(-96) *)
HistoryCap == 96

(* the clock stops at MaxNow; a UTC calendar day lasts DayLength ticks *)
MaxNow == 2
DayLength == 2

(* the most storeIVHistory calls of a run *)
MaxCalls == 3

Symbols == {"SPY", "QQQ"}

(* new Date().toISOString().split('T')[0]: the UTC calendar day of the clock *)
IsoDate(t) == t \div DayLength

(* the exchange's clock is EtLag ticks behind UTC (timeZone: 'America/New_York') *)
EtLag == 1

(* the US Eastern calendar day of the clock, as getETTimeString renders it *)
EtDate(t) == (t - EtLag) \div DayLength

(* `iv2:${symbol}:${today}` *)
HistoryKey(symbol, today) == <<"iv2", symbol, today>>

(* symbol + '_doom': the name the doomsday endpoint logs under *)
Doom(symbol) == symbol \o "_doom"

(* the symbol parameters a request can carry besides the futures symbol *)
RawSymbols == Symbols \cup {"SPY_doom"}

(* a symbol with its letters not raised to upper case *)
toUpperCaseOmitted(symbol) == symbol

(* String.prototype.toUpperCase, on the symbols of the model: only "SPY_doom" has
   lower-case letters *)
toUpperCase(symbol) == IF symbol = "SPY_doom" THEN "SPY_DOOM" ELSE symbol

(* the symbols a handler works with *)
UpperSymbols == {toUpperCase(s) : s \in RawSymbols}

(* every name a log can be written or asked for under *)
LogNames ==
  (RawSymbols \cup UpperSymbols) \cup {Doom(s) : s \in RawSymbols \cup UpperSymbols}

Keys == {HistoryKey(s, IsoDate(t)) : s \in LogNames, t \in 0..MaxNow}

(* the arguments a caller passes: the profile's atmIV, callWallIV and putWallIV *)
IvArgs ==
  {[atmIV |-> None, callWallIV |-> None, putWallIV |-> None],
   [atmIV |-> Some(20), callWallIV |-> Some(25), putWallIV |-> None]}

(* the object pushed onto the history; time is the ET rendering of timestamp
   and carries nothing more, so it is left out *)
HistoryRecord(t, args) ==
  [timestamp |-> t,
   atmIV |-> args.atmIV, callWallIV |-> args.callWallIV, putWallIV |-> args.putWallIV]

(* JSON.stringify of a history: each record as its values in key order *)
JsonStringify(history) ==
  [i \in DOMAIN history |->
     <<history[i].timestamp, history[i].atmIV, history[i].callWallIV, history[i].putWallIV>>]

(* JSON.parse of a stored history *)
JsonParse(text) ==
  [i \in DOMAIN text |->
     [timestamp |-> text[i][1], atmIV |-> text[i][2],
      callWallIV |-> text[i][3], putWallIV |-> text[i][4]]]

(* a stored text that is not JSON *)
NotJson == <<<<>>>>

(* JSON.parse(text) throws a SyntaxError *)
JsonParseThrows(text) == \E i \in DOMAIN text : Len(text[i]) # 4

(* let history = []; try { if (existing) history = JSON.parse(existing) } catch(e) {} *)
ReadHistory(existing) ==
  IF existing = None THEN <<>>
  ELSE IF JsonParseThrows(Val(existing)) THEN <<>>
  ELSE JsonParse(Val(existing))

(* the trim keeping the oldest records: slice(0, 96) written for slice(-96) *)
PushAndTrimOldest(history, record) == SliceFirst(Append(history, record), HistoryCap)

(* history.push(record); const trimmed = history.slice(-96) *)
PushAndTrim(history, record) == SliceLast(Append(history, record), HistoryCap)

IdleReq == [pc |-> "idle", key |-> None, args |-> None, history |-> <<>>, trimmed |-> <<>>]

(* a log left by n earlier appends, the oldest first, all before time 0 *)
EarlierLog(n) == [i \in 1..n |-> HistoryRecord(i - n - 1, [atmIV |-> None, callWallIV |-> None, putWallIV |-> None])]

(* the two requests whose storeIVHistory calls may overlap *)
Reqs == {1, 2}

HistIdle ==
  /\ kv = [k \in Keys |-> None]
  /\ now = 0
  /\ req = [r \in Reqs |-> IdleReq]
  /\ calls = 0
  /\ appended = [k \in Keys |-> <<>>]
  /\ lastPut = [k \in Keys |-> None]

GexIdle ==
  /\ chainData = [callExpDateMap |-> None, putExpDateMap |-> None]
  /\ spotPrice = 0
  /\ phase = "chain"
  /\ gex = None

(* the store holds, under one key of day 0, the log of n earlier appends *)
InitHist(lengths) ==
  /\ GexIdle
  /\ http = NoRequest
  /\ now = 0
  /\ req = [r \in Reqs |-> IdleReq]
  /\ calls = 0
  /\ lastPut = [k \in Keys |-> None]
  /\ \E n \in lengths :
       /\ appended = [k \in Keys |-> IF k = HistoryKey("SPY", 0) THEN EarlierLog(n) ELSE <<>>]
       /\ kv = [k \in Keys |-> IF k = HistoryKey("SPY", 0) /\ n > 0
                               THEN Some(JsonStringify(EarlierLog(n))) ELSE None]

(* storeIVHistory(env, symbol, atmIV, callWallIV, putWallIV) is called: lines 285-287 *)
StoreCall(r) ==
  /\ req[r].pc = "idle"
  /\ calls < MaxCalls
  /\ \E symbol \in Symbols, args \in IvArgs :
       req' = [req EXCEPT ![r] = [pc |-> "get", key |-> Some(HistoryKey(symbol, IsoDate(now))),
                                  args |-> Some(args), history |-> <<>>, trimmed |-> <<>>]]
  /\ calls' = calls + 1
  /\ UNCHANGED <<kv, now, appended, lastPut, gexVars, http>>

(* await env.GEX_KV.get(key) resolves and the stored text is parsed: lines 288-291 *)
KvGet(r) ==
  /\ req[r].pc = "get"
  /\ req' = [req EXCEPT ![r].pc = "push", ![r].history = ReadHistory(kv[Val(req[r].key)])]
  /\ UNCHANGED <<kv, now, calls, appended, lastPut, gexVars, http>>

(* the record is pushed, the history trimmed and the put issued: lines 293-302 *)
PushTrim(r) ==
  /\ req[r].pc = "push"
  /\ LET record == HistoryRecord(now, Val(req[r].args))
     IN  /\ req' = [req EXCEPT ![r].pc = "put",
                               ![r].trimmed = PushAndTrim(req[r].history, record)]
         /\ appended' = [appended EXCEPT ![Val(req[r].key)] = Append(@, record)]
  /\ UNCHANGED <<kv, now, calls, lastPut, gexVars, http>>

(* a put that appends to whatever the store holds when it lands, not to what was read *)
KvPutMerging(r) ==
  /\ req[r].pc = "put"
  /\ kv' = [kv EXCEPT ![Val(req[r].key)] =
              Some(JsonStringify(PushAndTrim(ReadHistory(kv[Val(req[r].key)]),
                                             req[r].trimmed[Len(req[r].trimmed)])))]
  /\ lastPut' = [lastPut EXCEPT ![Val(req[r].key)] =
                   Some([history |-> req[r].history,
                         record |-> req[r].trimmed[Len(req[r].trimmed)]])]
  /\ req' = [req EXCEPT ![r] = IdleReq]
  /\ UNCHANGED <<now, calls, appended, gexVars, http>>

(* the put reaches the store and storeIVHistory returns trimmed: lines 302-303 *)
KvPut(r) ==
  /\ req[r].pc = "put"
  /\ kv' = [kv EXCEPT ![Val(req[r].key)] = Some(JsonStringify(req[r].trimmed))]
  /\ lastPut' = [lastPut EXCEPT ![Val(req[r].key)] =
                   Some([history |-> req[r].history,
                         record |-> req[r].trimmed[Len(req[r].trimmed)]])]
  /\ req' = [req EXCEPT ![r] = IdleReq]
  /\ UNCHANGED <<now, calls, appended, gexVars, http>>

(* time passes *)
Tick ==
  /\ now < MaxNow
  /\ now' = now + 1
  /\ UNCHANGED <<kv, req, calls, appended, lastPut, gexVars, http>>

(* the lengths of the log found at the start: short ones and ones at the cap *)
EarlierLengths == (0..3) \cup ((HistoryCap - 3)..HistoryCap)

(* one storeIVHistory call after the other *)
NextSeq == StoreCall(1) \/ KvGet(1) \/ PushTrim(1) \/ KvPut(1) \/ Tick

SpecSeq == InitHist(EarlierLengths) /\ [][NextSeq]_vars

(* the calls of two requests interleave at their awaits *)
NextRace == \E r \in Reqs : StoreCall(r) \/ KvGet(r) \/ PushTrim(r) \/ KvPut(r) \/ Tick

SpecRace == InitHist({0, 1, HistoryCap - 1, HistoryCap}) /\ [][NextRace]_vars

(* the most option-map entries a chain holds, both sides together *)
MaxEntries == 3

(* composite expiration keys "date:daysToExpiration", the date shortened to its day *)
Exp21 == <<"2", "1", ":", "7">>
Exp28 == <<"2", "8", ":", "1", "4">>

(* strike strings: "0.01" and "0.010" spell the same number, "0.025" is off the cent grid *)
K010 == <<"0", ".", "0", "1">>
K010b == <<"0", ".", "0", "1", "0">>
K020 == <<"0", ".", "0", "2">>
K025 == <<"0", ".", "0", "2", "5">>
K030 == <<"0", ".", "0", "3">>

StrikeKeys ==
  {<<Exp21, K010>>, <<Exp28, K010b>>, <<Exp21, K020>>, <<Exp21, K025>>, <<Exp21, K030>>}

Contract(g, oi, vol, iv) ==
  [gamma |-> g, openInterest |-> oi, totalVolume |-> vol, volatility |-> iv]

Contracts ==
  {Contract(Some(1), Some(1), Some(1), Some(20)),
   Contract(Some(2), Some(1), Some(0), Some(0)),
   Contract(Some(-1), Some(2), Some(3), Some(500)),
   Contract(Some(-1), Some(1), None, Some(600))}

(* the contract lists under a strike: one contract, or a list whose first is used *)
ContractLists ==
  {<<c>> : c \in Contracts}
    \cup {<<Contract(None, Some(3), Some(1), None), Contract(Some(2), Some(2), Some(2), Some(30))>>}

Spots == {0, 20, 30}

EntriesOf(optionMap) == IF optionMap = None THEN <<>> ELSE Val(optionMap)

NumEntries == Len(EntriesOf(chainData.callExpDateMap)) + Len(EntriesOf(chainData.putExpDateMap))

(* an object holds each key once, and Object.entries visits an expiration's strikes together *)
CanFollow(entries, expDateStr, strikeStr) ==
  /\ \A i \in DOMAIN entries :
       ~(entries[i].expDateStr = expDateStr /\ entries[i].strikeStr = strikeStr)
  /\ IF entries = <<>> THEN TRUE
     ELSE IF entries[Len(entries)].expDateStr = expDateStr THEN TRUE
     ELSE \A i \in DOMAIN entries : entries[i].expDateStr # expDateStr

InitGex ==
  /\ chainData \in {[callExpDateMap |-> c, putExpDateMap |-> p] :
                      c \in {None, Some(<<>>)}, p \in {None, Some(<<>>)}}
  /\ spotPrice \in Spots
  /\ phase = "chain"
  /\ gex = None
  /\ HistIdle
  /\ http = NoRequest

(* the provider's chain carries one more call entry *)
CallEntry ==
  /\ phase = "chain"
  /\ NumEntries < MaxEntries
  /\ \E k \in StrikeKeys, cs \in ContractLists :
       /\ CanFollow(EntriesOf(chainData.callExpDateMap), k[1], k[2])
       /\ chainData' = [chainData EXCEPT !.callExpDateMap =
            Some(Append(EntriesOf(chainData.callExpDateMap),
                        [expDateStr |-> k[1], strikeStr |-> k[2], contracts |-> cs]))]
  /\ UNCHANGED <<spotPrice, phase, gex, histVars, http>>

(* the provider's chain carries one more put entry *)
PutEntry ==
  /\ phase = "chain"
  /\ NumEntries < MaxEntries
  /\ \E k \in StrikeKeys, cs \in ContractLists :
       /\ CanFollow(EntriesOf(chainData.putExpDateMap), k[1], k[2])
       /\ chainData' = [chainData EXCEPT !.putExpDateMap =
            Some(Append(EntriesOf(chainData.putExpDateMap),
                        [expDateStr |-> k[1], strikeStr |-> k[2], contracts |-> cs]))]
  /\ UNCHANGED <<spotPrice, phase, gex, histVars, http>>

(* a calculateGEX that answers from the store once a log is kept there *)
CalculateFromStore ==
  /\ phase = "chain"
  /\ IF calculateGEXThrows(chainData)
     THEN gex' = None /\ phase' = "threw"
     ELSE /\ gex' = IF \E k \in DOMAIN kv : kv[k] # None
                    THEN None ELSE calculateGEX(chainData, spotPrice)
          /\ phase' = "returned"
  /\ UNCHANGED <<chainData, spotPrice, histVars, http>>

(* const gex = calculateGEX(chainData, spotPrice) *)
Calculate ==
  /\ phase = "chain"
  /\ IF calculateGEXThrows(chainData)
     THEN gex' = None /\ phase' = "threw"
     ELSE gex' = calculateGEX(chainData, spotPrice) /\ phase' = "returned"
  /\ UNCHANGED <<chainData, spotPrice, histVars, http>>

NextGex == CallEntry \/ PutEntry \/ Calculate

SpecGex == InitGex /\ [][NextGex]_vars

(***************************************************************************)
(* The ATM window: a chain of LadderSize call strikes 0.01, 0.02, ... under *)
(* one expiration, at most one put entry, and a spot inside the ladder.    *)
(***************************************************************************)
LadderSize == 6

LadderIVs == {Some(0), Some(20), Some(600)}

LadderPutIVs == {Some(40), Some(500)}

AtmSpots == {25, 35, 40}

LadderEntry(i, iv) ==
  [expDateStr |-> Exp21, strikeStr |-> NumberToString(10 * i),
   contracts |-> <<Contract(Some(1), Some(1), Some(1), iv)>>]

InitAtm ==
  /\ \E ivs \in [1..LadderSize -> LadderIVs] :
       chainData = [callExpDateMap |-> Some([i \in 1..LadderSize |-> LadderEntry(i, ivs[i])]),
                    putExpDateMap |-> None]
  /\ spotPrice \in AtmSpots
  /\ phase = "chain"
  /\ gex = None
  /\ HistIdle
  /\ http = NoRequest

(* the chain carries a put entry at one strike of the ladder *)
LadderPut ==
  /\ phase = "chain"
  /\ chainData.putExpDateMap = None
  /\ \E i \in 1..LadderSize, iv \in LadderPutIVs :
       chainData' = [chainData EXCEPT !.putExpDateMap =
         Some(<<[expDateStr |-> Exp21, strikeStr |-> NumberToString(10 * i),
                 contracts |-> <<Contract(Some(-1), Some(1), Some(1), iv)>>]>>)]
  /\ UNCHANGED <<spotPrice, phase, gex, histVars, http>>

NextAtm == LadderPut \/ Calculate

SpecAtm == InitAtm /\ [][NextAtm]_vars

(***************************************************************************)
(* The worked example: one expiration, strikes 100 and 105, spot 102.      *)
(* Prices are taken at one thousandth (the strings "0.1" and "0.105", spot *)
(* 0.102, so that 100, 105 and 102 are their values in thousandths), gamma *)
(* in hundredths and open interest in tens: an exposure of the model is    *)
(* ten times the exposure of the example.                                  *)
(***************************************************************************)
K100 == <<"0", ".", "1">>
K105 == <<"0", ".", "1", "0", "5">>

ExampleLeg(strikeStr, g, oi) ==
  [expDateStr |-> Exp21, strikeStr |-> strikeStr,
   contracts |-> <<Contract(Some(g), Some(oi), None, None)>>]

ExampleCalls == <<ExampleLeg(K100, 5, 100), ExampleLeg(K105, 3, 50)>>

ExamplePuts == <<ExampleLeg(K100, -4, 80), ExampleLeg(K105, -2, 90)>>

ExampleSpots == 100..105

InitExample ==
  /\ chainData = [callExpDateMap |-> Some(<<>>), putExpDateMap |-> Some(<<>>)]
  /\ spotPrice \in ExampleSpots
  /\ phase = "chain"
  /\ gex = None
  /\ HistIdle
  /\ http = NoRequest

(* the chain carries one more leg of the example, on its side *)
ExampleEntry ==
  /\ phase = "chain"
  /\ \/ \E e \in Range(ExampleCalls) :
          /\ e \notin Range(Val(chainData.callExpDateMap))
          /\ chainData' = [chainData EXCEPT !.callExpDateMap =
                             Some(Append(Val(chainData.callExpDateMap), e))]
     \/ \E e \in Range(ExamplePuts) :
          /\ e \notin Range(Val(chainData.putExpDateMap))
          /\ chainData' = [chainData EXCEPT !.putExpDateMap =
                             Some(Append(Val(chainData.putExpDateMap), e))]
  /\ UNCHANGED <<spotPrice, phase, gex, histVars, http>>

NextExample == ExampleEntry \/ Calculate

SpecExample == InitExample /\ [][NextExample]_vars

(***************************************************************************)
(* Chains with malformed contract data: a strike whose contract list is    *)
(* empty or holds null, and contracts with fields missing.                 *)
(***************************************************************************)
MalformedLists ==
  {<<>>, <<Null>>,
   <<Contract(None, None, None, None)>>,
   <<Contract(None, Some(3), Some(1), Some(600))>>,
   <<Contract(Some(1), None, Some(2), None)>>}

MalformedKeys == {<<Exp21, K010>>, <<Exp28, K010b>>, <<Exp21, K020>>}

InitMalformed ==
  /\ chainData = [callExpDateMap |-> Some(<<>>), putExpDateMap |-> None]
  /\ spotPrice \in Spots
  /\ phase = "chain"
  /\ gex = None
  /\ HistIdle
  /\ http = NoRequest

(* the provider's chain carries one more entry, well formed or not, on either side *)
MalformedEntry ==
  /\ phase = "chain"
  /\ NumEntries < MaxEntries
  /\ \E k \in MalformedKeys,
        cs \in MalformedLists \cup {<<Contract(Some(1), Some(1), Some(1), Some(20))>>} :
       \/ /\ CanFollow(EntriesOf(chainData.callExpDateMap), k[1], k[2])
          /\ chainData' = [chainData EXCEPT !.callExpDateMap =
               Some(Append(EntriesOf(chainData.callExpDateMap),
                           [expDateStr |-> k[1], strikeStr |-> k[2], contracts |-> cs]))]
       \/ /\ CanFollow(EntriesOf(chainData.putExpDateMap), k[1], k[2])
          /\ chainData' = [chainData EXCEPT !.putExpDateMap =
               Some(Append(EntriesOf(chainData.putExpDateMap),
                           [expDateStr |-> k[1], strikeStr |-> k[2], contracts |-> cs]))]
  /\ UNCHANGED <<spotPrice, phase, gex, histVars, http>>

NextMalformed == MalformedEntry \/ Calculate

SpecMalformed == InitMalformed /\ [][NextMalformed]_vars

(***************************************************************************)
(* The fetch handler.  One request is served at a time, from its arrival   *)
(* to its response; every await is a step.  http.trace lists what the      *)
(* request did: "token", "quote" and "chain" are calls to the provider,    *)
(* "put:access_token" the write of the refreshed token, "calc" the call of *)
(* calculateGEX, "store" the call of storeIVHistory, "throw" an exception  *)
(* reaching the catch of lines 463-466.                                    *)
(***************************************************************************)

(* the most requests of a run *)
MaxRequests == 2

(* request.method === 'OPTIONS' is taken as a path of its own *)
Paths ==
  {"OPTIONS", "/api/health", "/api/expirations", "/api/gex", "/api/doomsday",
   "/api/iv-history", "/other"}

(* url.searchParams.get('symbol')?.toUpperCase() *)
ReqSymbols == {None, Some("SPY"), Some("/ES")}

(* symbol.startsWith('/') *)
StartsWithSlash(symbol) == symbol = "/ES"

(* a quote's price fields, a missing field as 0 (both are falsy) *)
Quotes ==
  {[lastPrice |-> 20, mark |-> 0, closePrice |-> 0],
   [lastPrice |-> 0, mark |-> 0, closePrice |-> 20],
   [lastPrice |-> 0, mark |-> 0, closePrice |-> 0],
   [lastPrice |-> -20, mark |-> 20, closePrice |-> 20]}

(* q.lastPrice || q.mark || q.closePrice || 0 *)
QuoteLast(q) ==
  IF q.lastPrice # 0 THEN q.lastPrice
  ELSE IF q.mark # 0 THEN q.mark
  ELSE IF q.closePrice # 0 THEN q.closePrice
  ELSE 0

(* the chains the provider answers with *)
ReqChains ==
  {[callExpDateMap |-> None, putExpDateMap |-> None],
   [callExpDateMap |-> Some(<<>>), putExpDateMap |-> Some(<<>>)],
   [callExpDateMap |-> Some(<<[expDateStr |-> Exp21, strikeStr |-> K020,
                               contracts |-> <<Contract(Some(1), Some(1), Some(1), Some(20))>>]>>),
    putExpDateMap |-> None],
   [callExpDateMap |-> Some(<<[expDateStr |-> Exp21, strikeStr |-> K020,
                               contracts |-> <<Contract(Some(2), Some(1), Some(1), Some(30))>>]>>),
    putExpDateMap |-> Some(<<[expDateStr |-> Exp21, strikeStr |-> K010,
                              contracts |-> <<Contract(Some(-1), Some(1), Some(1), None)>>]>>)],
   [callExpDateMap |-> Some(<<[expDateStr |-> Exp21, strikeStr |-> K010, contracts |-> <<>>]>>),
    putExpDateMap |-> None]}

(* fetchExpirationDates: the dates of both maps of the chain *)
AllDates(chain) ==
  {SplitFirst(e.expDateStr, ":") :
     e \in Range(EntriesOf(chain.callExpDateMap)) \cup Range(EntriesOf(chain.putExpDateMap))}

Event(h, e) == [h EXCEPT !.trace = Append(@, e)]

(* return jsonRes(...) or return errRes(msg, status) *)
Respond(h, status) == [h EXCEPT !.pc = "done", !.responses = Append(@, status)]

(* an exception reaches the catch: return errRes(e.message || 'Internal error') *)
Throw(h) == Respond(Event(h, "throw"), 500)

(* the name the request logs under, or reads *)
LogName(h) ==
  IF h.path = "/api/doomsday" \/ (h.path = "/api/iv-history" /\ h.doom)
  THEN Doom(Val(h.symbol)) ELSE Val(h.symbol)

(* the handler holds no chain, spot or profile *)
NoProfile ==
  [chainData |-> [callExpDateMap |-> None, putExpDateMap |-> None],
   spotPrice |-> 0, phase |-> "idle", gex |-> None]

InitReq ==
  /\ chainData = NoProfile.chainData
  /\ spotPrice = NoProfile.spotPrice
  /\ phase = NoProfile.phase
  /\ gex = NoProfile.gex
  /\ http = NoRequest
  /\ now = 0
  /\ req = [r \in Reqs |-> IdleReq]
  /\ calls = 0
  /\ lastPut = [k \in Keys |-> None]
  /\ \E n \in {0, HistoryCap} :
       /\ appended = [k \in Keys |-> IF k = HistoryKey("SPY", 0) THEN EarlierLog(n) ELSE <<>>]
       /\ kv = [k \in Keys |-> IF k = HistoryKey("SPY", 0) /\ n > 0
                               THEN Some(JsonStringify(EarlierLog(n))) ELSE None]

(* a request arrives and runs to its first await, or to its response: lines 336-362,
   405-408, 453-456 and 461; its chain, spot and profile are its own *)
ReceiveFrom(symbols) ==
  /\ http.pc \in {"idle", "done"}
  /\ http.served < MaxRequests
  /\ \E path \in Paths, param \in symbols, doom \in BOOLEAN :
       /\ doom => path = "/api/iv-history"
       /\ path = "/api/iv-history" => param # Some("/ES")
       /\ LET symbol == IF param = None THEN None ELSE Some(toUpperCase(Val(param)))
              h == [http EXCEPT !.path = path, !.symbol = symbol, !.doom = doom,
                                !.last = None, !.key = None, !.trace = <<>>,
                                !.responses = <<>>, !.body = <<>>, !.kvBefore = Some(kv),
                                !.at = now, !.served = @ + 1]
          IN  http' =
                IF path \in {"OPTIONS", "/api/health"} THEN Respond(h, 200)
                ELSE IF path = "/other" THEN Respond(h, 404)
                ELSE IF symbol = None THEN Respond(h, 400)
                ELSE IF path = "/api/iv-history"
                     THEN [h EXCEPT !.pc = "read",
                                    !.key = Some(HistoryKey(LogName(h), IsoDate(now)))]
                ELSE IF StartsWithSlash(Val(symbol)) THEN Respond(h, 400)
                ELSE [h EXCEPT !.pc = "token"]
  /\ chainData' = NoProfile.chainData
  /\ spotPrice' = NoProfile.spotPrice
  /\ phase' = NoProfile.phase
  /\ gex' = NoProfile.gex
  /\ UNCHANGED histVars

Receive == ReceiveFrom(ReqSymbols)

(* await getAccessToken(env): the cached token, a refreshed one, or a failed refresh *)
GetAccessToken ==
  /\ http.pc = "token"
  /\ \E outcome \in {"cached", "refreshed", "failed"} :
       http' =
         LET next == IF http.path = "/api/expirations" THEN "dates" ELSE "quote" IN
         IF outcome = "cached" THEN [http EXCEPT !.pc = next]
         ELSE IF outcome = "refreshed"
              THEN [Event(Event(http, "token"), "put:access_token") EXCEPT !.pc = next]
         ELSE Throw(Event(http, "token"))
  /\ UNCHANGED <<gexVars, histVars>>

(* await fetchQuote(symbol, token), and on /api/gex the test of the spot price *)
FetchQuote ==
  /\ http.pc = "quote"
  /\ \/ \E failure \in {"not ok", "no quote"} : http' = Throw(Event(http, "quote"))
     \/ \E q \in Quotes :
          LET h == [Event(http, "quote") EXCEPT !.last = Some(QuoteLast(q))] IN
          http' = IF http.path = "/api/gex"
                  THEN IF QuoteLast(q) = 0 THEN Throw(h) ELSE [h EXCEPT !.pc = "chain"]
                  ELSE [h EXCEPT !.pc = "dates"]
  /\ UNCHANGED <<gexVars, histVars>>

(* await fetchExpirationDates(symbol, token), which fetches a chain *)
FetchExpirationDates ==
  /\ http.pc = "dates"
  /\ \/ \E failure \in {"not ok", "FAILED"} : http' = Throw(Event(http, "chain"))
     \/ \E chain \in ReqChains :
          LET h == Event(http, "chain") IN
          http' = IF http.path = "/api/expirations" THEN Respond(h, 200)
                  ELSE IF AllDates(chain) = {} THEN Respond(h, 404)
                  ELSE [h EXCEPT !.pc = "chain"]
  /\ UNCHANGED <<gexVars, histVars>>

(* a chain lookup that is attempted again when it fails *)
FetchOptionChainRetrying ==
  /\ http.pc = "chain"
  /\ \/ /\ http' = IF Len(http.trace) < 8 THEN Event(http, "chain")
                    ELSE Throw(Event(http, "chain"))
        /\ UNCHANGED gexVars
     \/ /\ \E chain \in ReqChains : chainData' = chain
        /\ spotPrice' = Val(http.last)
        /\ phase' = "chain"
        /\ gex' = None
        /\ http' = [Event(http, "chain") EXCEPT !.pc = "calc"]
  /\ UNCHANGED histVars

(* await fetchOptionChain(...): the chain calculateGEX is about to be given *)
FetchOptionChain ==
  /\ http.pc = "chain"
  /\ \/ /\ \E failure \in {"not ok", "FAILED"} : http' = Throw(Event(http, "chain"))
        /\ UNCHANGED gexVars
     \/ /\ \E chain \in ReqChains : chainData' = chain
        /\ spotPrice' = Val(http.last)
        /\ phase' = "chain"
        /\ gex' = None
        /\ http' = [Event(http, "chain") EXCEPT !.pc = "calc"]
  /\ UNCHANGED histVars

(* the request answers without calling storeIVHistory *)
HandleProfileNoStore ==
  /\ http.pc = "calc"
  /\ phase # "chain"
  /\ http' = IF phase = "threw" \/ gex = None
             THEN Throw(Event(http, "calc")) ELSE Respond(Event(http, "calc"), 200)
  /\ UNCHANGED <<histVars, gexVars>>

(* calculateGEX has returned or thrown: the test of its result and the call of
   storeIVHistory up to its first await, lines 383-386 and 420-431 *)
HandleProfile ==
  /\ http.pc = "calc"
  /\ phase # "chain"
  /\ LET h == [Event(http, "calc") EXCEPT
                 !.calcLog = @ \cup {[chainData |-> chainData, spotPrice |-> spotPrice,
                                      phase |-> phase, gex |-> gex, at |-> now,
                                      stored |-> {k \in Keys : kv[k] # None}]}]
     IN  IF phase = "threw" \/ gex = None
         THEN /\ http' = Throw(h)
              /\ UNCHANGED <<req, calls>>
         ELSE /\ http' = [Event(h, "store") EXCEPT
                             !.pc = "store",
                             !.key = Some(HistoryKey(LogName(http), IsoDate(now)))]
              /\ req' = [req EXCEPT ![1] =
                           [pc |-> "get", key |-> Some(HistoryKey(LogName(http), IsoDate(now))),
                            args |-> Some([atmIV |-> Val(gex).atmIV,
                                           callWallIV |-> Val(gex).callWallIV,
                                           putWallIV |-> Val(gex).putWallIV]),
                            history |-> <<>>, trimmed |-> <<>>]]
              /\ calls' = calls + 1
  /\ UNCHANGED <<kv, now, appended, lastPut, gexVars>>

(* env.GEX_KV.put rejects: the exception leaves storeIVHistory *)
PutFails ==
  /\ http.pc = "store"
  /\ req[1].pc = "put"
  /\ req' = [req EXCEPT ![1] = IdleReq]
  /\ http' = Throw(http)
  /\ UNCHANGED <<kv, now, calls, appended, lastPut, gexVars>>

(* storeIVHistory has returned: return jsonRes({...}) *)
StoreReturns ==
  /\ http.pc = "store"
  /\ req[1].pc = "idle"
  /\ http' = Respond(http, 200)
  /\ UNCHANGED <<gexVars, histVars>>

(* await getIVHistory(env, symbol + suffix): return jsonRes({ symbol, history }) *)
GetIVHistory ==
  /\ http.pc = "read"
  /\ http' = Respond([http EXCEPT !.body = ReadHistory(kv[Val(http.key)])], 200)
  /\ UNCHANGED <<gexVars, histVars>>

NextReq ==
  \/ Receive \/ GetAccessToken \/ FetchQuote \/ FetchExpirationDates \/ FetchOptionChain
  \/ Calculate \/ HandleProfile \/ KvGet(1) \/ PushTrim(1) \/ KvPut(1) \/ PutFails
  \/ StoreReturns \/ GetIVHistory \/ Tick

SpecReq == InitReq /\ [][NextReq]_vars

(***************************************************************************)
(* The logs of the two computing endpoints, and stored values that cannot  *)
(* be read: requests for SPY and for a symbol spelt like SPY's doomsday    *)
(* log, over a store whose SPY log of day 0 is sound or is not JSON.       *)
(***************************************************************************)

(* the symbol parameters of the requests *)
LogSymbols == {Some("SPY"), Some("SPY_doom")}

InitLogs ==
  /\ chainData = NoProfile.chainData
  /\ spotPrice = NoProfile.spotPrice
  /\ phase = NoProfile.phase
  /\ gex = NoProfile.gex
  /\ http = NoRequest
  /\ now = 0
  /\ req = [r \in Reqs |-> IdleReq]
  /\ calls = 0
  /\ lastPut = [k \in Keys |-> None]
  /\ \E stored \in {NotJson, JsonStringify(EarlierLog(2))} :
       /\ appended = [k \in Keys |-> IF k = HistoryKey("SPY", 0) THEN ReadHistory(Some(stored))
                                     ELSE <<>>]
       /\ kv = [k \in Keys |-> IF k = HistoryKey("SPY", 0) THEN Some(stored) ELSE None]

ReceiveLogs == ReceiveFrom(LogSymbols)

(* await env.GEX_KV.get(key) rejects inside storeIVHistory's try: catch(e) {} leaves
   history = [], lines 288-291 *)
KvGetFails(r) ==
  /\ req[r].pc = "get"
  /\ req' = [req EXCEPT ![r].pc = "push", ![r].history = <<>>]
  /\ http' = Event(http, "unreadable")
  /\ UNCHANGED <<kv, now, calls, appended, lastPut, gexVars>>

(* a getIVHistory without the try: the rejection reaches the handler's catch *)
GetIVHistoryFailsUncaught ==
  /\ http.pc = "read"
  /\ http' = Throw(Event(http, "unreadable"))
  /\ UNCHANGED <<gexVars, histVars>>

(* await env.GEX_KV.get(key) rejects inside getIVHistory's try: catch(e) { return [] },
   lines 307-312 *)
GetIVHistoryFails ==
  /\ http.pc = "read"
  /\ http' = Respond(Event([http EXCEPT !.body = <<>>], "unreadable"), 200)
  /\ UNCHANGED <<gexVars, histVars>>

NextLogs ==
  \/ ReceiveLogs \/ GetAccessToken \/ FetchQuote \/ FetchExpirationDates \/ FetchOptionChain
  \/ Calculate \/ HandleProfile \/ KvGet(1) \/ KvGetFails(1) \/ PushTrim(1) \/ KvPut(1)
  \/ PutFails \/ StoreReturns \/ GetIVHistory \/ GetIVHistoryFails \/ Tick

SpecLogs == InitLogs /\ [][NextLogs]_vars

(***************************************************************************)
(* Properties.                                                             *)
(***************************************************************************)

(* no storeIVHistory call has pushed a record onto key k that its put has not stored yet *)
Settled(k) == \A r \in Reqs : ~(req[r].pc = "put" /\ req[r].key = Some(k))

(* the last min(Len(s), n) elements of s, in their order *)
LastOf(s, n) ==
  LET m == Min(Len(s), n)
  IN  [i \in 1..m |-> s[Len(s) - m + i]]

(* C1: with one storeIVHistory call after the other, the log stored under a key never
   holds more than 96 records, and once a call has returned it is exactly the last
   min(k, 96) of the k records appended to that key, oldest first *)
C1_LogIsLastAppends ==
  \A k \in Keys :
    /\ Len(ReadHistory(kv[k])) <= HistoryCap
    /\ Settled(k) => ReadHistory(kv[k]) = LastOf(appended[k], HistoryCap)

(* C1 witness: more than 96 records were appended to a key and the call has returned *)
C1_Witness ==
  \E k \in Keys :
    /\ Len(appended[k]) > HistoryCap
    /\ Settled(k)
    /\ Len(ReadHistory(kv[k])) = HistoryCap

(* C2: when storeIVHistory calls interleave, the log in the store is always the log read
   by the call whose put landed last plus that call's own record, trimmed to the cap,
   and never holds more than 96 records *)
C2_LastWriterWins ==
  \A k \in Keys :
    /\ Len(ReadHistory(kv[k])) <= HistoryCap
    /\ lastPut[k] # None =>
         ReadHistory(kv[k]) =
           LastOf(Append(Val(lastPut[k]).history, Val(lastPut[k]).record), HistoryCap)

(* C2 witness: two calls have both stored under one key and the record of one is lost:
   the log is below the cap and is shorter than the records appended *)
C2_Witness ==
  \E k \in Keys :
    /\ \A r \in Reqs : req[r].pc = "idle"
    /\ lastPut[k] # None
    /\ Len(ReadHistory(kv[k])) < HistoryCap
    /\ Len(ReadHistory(kv[k])) < Len(appended[k])

(* calculateGEX has returned a profile *)
Returned == phase = "returned" /\ gex # None

(* calculateGEX has returned a profile for a positive spot price *)
ReturnedForSpot == Returned /\ spotPrice > 0

Profile == Val(gex)

NumStrikes == Len(Profile.strikes)

RECURSIVE SumNetGex(_)
SumNetGex(strikeData) ==
  IF strikeData = <<>> THEN 0
  ELSE strikeData[Len(strikeData)].netGex + SumNetGex(SubSeq(strikeData, 1, Len(strikeData) - 1))

(* C3: aggregateGex is as long as strikes, starts at the first strike's netGex, grows by
   each strike's netGex, and ends at the sum of all netGex *)
C3_CumulativeCurve ==
  Returned =>
    /\ Len(Profile.aggregateGex) = NumStrikes
    /\ Profile.aggregateGex[1] = Profile.strikes[1].netGex
    /\ \A i \in 2..NumStrikes :
         Profile.aggregateGex[i] = Profile.aggregateGex[i - 1] + Profile.strikes[i].netGex
    /\ Profile.aggregateGex[NumStrikes] = SumNetGex(Profile.strikes)

(* C3 witness: a profile of three strikes with non-zero net exposures of both signs *)
C3_Witness ==
  /\ Returned
  /\ NumStrikes = 3
  /\ \A i \in 1..3 : Profile.strikes[i].netGex # 0
  /\ \E i, j \in 1..3 : Profile.strikes[i].netGex < 0 /\ Profile.strikes[j].netGex > 0

(* C4: the strikes of a profile are strictly ascending, hence unique *)
C4_StrikesAscending ==
  Returned =>
    \A i \in 1..(NumStrikes - 1) : Profile.strikes[i].strike < Profile.strikes[i + 1].strike

AllEntries == EntriesOf(chainData.callExpDateMap) \o EntriesOf(chainData.putExpDateMap)

(* C4 witness: the chain spells one strike in two ways, under two expirations and on both
   sides, and lists a higher strike before a lower one *)
C4_Witness ==
  /\ Returned
  /\ NumStrikes >= 2
  /\ \E i, j \in DOMAIN AllEntries :
       /\ AllEntries[i].strikeStr # AllEntries[j].strikeStr
       /\ AllEntries[i].expDateStr # AllEntries[j].expDateStr
       /\ parseFloat(AllEntries[i].strikeStr) = parseFloat(AllEntries[j].strikeStr)
  /\ \E i, j \in DOMAIN AllEntries :
       i < j /\ parseFloat(AllEntries[i].strikeStr) > parseFloat(AllEntries[j].strikeStr)
  /\ \E i \in DOMAIN EntriesOf(chainData.callExpDateMap),
        j \in DOMAIN EntriesOf(chainData.putExpDateMap) :
       parseFloat(EntriesOf(chainData.callExpDateMap)[i].strikeStr)
         = parseFloat(EntriesOf(chainData.putExpDateMap)[j].strikeStr)

(* the indices i whose pair (i - 1, i) of the cumulative curve straddles zero *)
CrossingPairs ==
  {i \in 2..NumStrikes :
     \/ Profile.aggregateGex[i - 1] < 0 /\ Profile.aggregateGex[i] >= 0
     \/ Profile.aggregateGex[i - 1] >= 0 /\ Profile.aggregateGex[i] < 0}

(* C5: for a positive spot and no crossing, gammaFlip is the strike whose cumulative value is smallest in
   magnitude, so it is not null *)
C5_FallbackFlip ==
  (ReturnedForSpot /\ CrossingPairs = {}) =>
    \E i \in 1..NumStrikes :
      /\ Profile.gammaFlip = Some(Profile.strikes[i].strike)
      /\ \A j \in 1..NumStrikes :
           Abs(Profile.aggregateGex[i]) <= Abs(Profile.aggregateGex[j])

(* the strikes of the profile inside [0.6 * spot, 1.4 * spot] *)
BandStrikes ==
  {i \in 1..NumStrikes :
     /\ 10 * Profile.strikes[i].strike >= 6 * spotPrice
     /\ 10 * Profile.strikes[i].strike <= 14 * spotPrice}

(* the chain follows the provider's sign convention: call gammas >= 0, put gammas <= 0 *)
NativeSigns ==
  /\ \A i \in DOMAIN EntriesOf(chainData.callExpDateMap) :
       OrElse(EntriesOf(chainData.callExpDateMap)[i].contracts[1].gamma, 0) >= 0
  /\ \A i \in DOMAIN EntriesOf(chainData.putExpDateMap) :
       OrElse(EntriesOf(chainData.putExpDateMap)[i].contracts[1].gamma, 0) <= 0

(* C6: for a positive spot and call gammas >= 0, put gammas <= 0, when the band holds a strike, callWall is a strike of the band whose netGex is the
   largest of the band, and putWall one whose netGex is the smallest of the band *)
C6_WallsByNetGex ==
  (ReturnedForSpot /\ NativeSigns /\ BandStrikes # {}) =>
    /\ \E i \in BandStrikes :
         /\ Profile.callWall = Some(Profile.strikes[i].strike)
         /\ \A j \in BandStrikes : Profile.strikes[i].netGex >= Profile.strikes[j].netGex
    /\ \E i \in BandStrikes :
         /\ Profile.putWall = Some(Profile.strikes[i].strike)
         /\ \A j \in BandStrikes : Profile.strikes[i].netGex <= Profile.strikes[j].netGex

(* an IV reading strictly inside (0, 500) *)
ValidIV(iv) == iv # None /\ Val(iv) > 0 /\ Val(iv) < 500

(* C7: for a positive spot, a strike's callIV and putIV are absent or strictly inside (0, 500), and atmIV is
   never zero *)
C7_OutOfRangeIVAbsent ==
  ReturnedForSpot =>
    /\ \A i \in 1..NumStrikes :
         /\ Profile.strikes[i].callIV = None \/ ValidIV(Profile.strikes[i].callIV)
         /\ Profile.strikes[i].putIV = None \/ ValidIV(Profile.strikes[i].putIV)
    /\ Profile.atmIV # None => Val(Profile.atmIV).num > 0

(* |strike - spot| of the i-th strike of the profile *)
Distance(i) == Abs(Profile.strikes[i].strike - spotPrice)

(* the (at most) 5 strikes nearest to spot, nearer first and lower strike first on a tie *)
AtmWindow ==
  {i \in 1..NumStrikes :
     Cardinality({j \in 1..NumStrikes :
                    Distance(j) < Distance(i) \/ (Distance(j) = Distance(i) /\ j < i)}) < 5}

RECURSIVE SumOver(_, _)
SumOver(f, S) ==
  IF S = {} THEN 0
  ELSE LET x == CHOOSE x \in S : TRUE IN f[x] + SumOver(f, S \ {x})

(* the sum and the number of the IV readings strictly inside (0, 500) in the window *)
WindowIvSum ==
  SumOver([i \in 1..NumStrikes |->
             (IF ValidIV(Profile.strikes[i].callIV) THEN Val(Profile.strikes[i].callIV) ELSE 0)
             + (IF ValidIV(Profile.strikes[i].putIV) THEN Val(Profile.strikes[i].putIV) ELSE 0)],
          AtmWindow)

WindowIvCount ==
  SumOver([i \in 1..NumStrikes |->
             (IF ValidIV(Profile.strikes[i].callIV) THEN 1 ELSE 0)
             + (IF ValidIV(Profile.strikes[i].putIV) THEN 1 ELSE 0)],
          AtmWindow)

(* C8: for a positive spot, atmIV is null when no strike of the nearest-5 window has a
   call or put IV inside (0, 500), and otherwise the mean of exactly those IVs *)
C8_AtmIVOfWindow ==
  ReturnedForSpot =>
    IF WindowIvCount = 0 THEN Profile.atmIV = None
    ELSE /\ Profile.atmIV # None
         /\ Val(Profile.atmIV).num * WindowIvCount = WindowIvSum * Val(Profile.atmIV).den

(* the same with the readings counted as cleanIV keeps them, 0 and 500 included *)
KeptIvSum ==
  SumOver([i \in 1..NumStrikes |->
             OrElse(Profile.strikes[i].callIV, 0) + OrElse(Profile.strikes[i].putIV, 0)],
          AtmWindow)

KeptIvCount ==
  SumOver([i \in 1..NumStrikes |->
             (IF Profile.strikes[i].callIV # None THEN 1 ELSE 0)
             + (IF Profile.strikes[i].putIV # None THEN 1 ELSE 0)],
          AtmWindow)

(* what the ATM block does compute: the mean of the readings cleanIV kept, over the
   nearest-5 window *)
AtmIVOfKeptReadings ==
  ReturnedForSpot =>
    IF KeptIvCount = 0 THEN Profile.atmIV = None
    ELSE /\ Profile.atmIV # None
         /\ Val(Profile.atmIV).num * KeptIvCount = KeptIvSum * Val(Profile.atmIV).den

(* the point interpolated at the crossing pair (i - 1, i), as a fraction *)
Interpolated(i) ==
  LET a  == Abs(Profile.aggregateGex[i - 1])
      b  == Abs(Profile.aggregateGex[i])
      lo == Profile.strikes[i - 1].strike
      hi == Profile.strikes[i].strike
  IN  [num |-> lo * (a + b) + a * (hi - lo), den |-> a + b]

(* a fraction x >= 0 rounded to the cent grid, a tie going up *)
RoundedToCent(x) == 10 * ((2 * x.num + 10 * x.den) \div (20 * x.den))

(* |x - spot| * x.den * y.den for the fraction x *)
ScaledGap(x, y) == Abs(x.num - spotPrice * x.den) * y.den

(* C9, as claimed: a gamma flip derived from a crossing lies between the two strikes of
   a crossing pair *)
C9_FlipWithinCrossingPair ==
  (ReturnedForSpot /\ CrossingPairs # {}) =>
    /\ Profile.gammaFlip # None
    /\ \E i \in CrossingPairs :
         /\ Profile.strikes[i - 1].strike <= Val(Profile.gammaFlip)
         /\ Val(Profile.gammaFlip) <= Profile.strikes[i].strike

(* C9, amended: a gamma flip derived from a crossing is within half a cent (5 thousandths,
   the rounding to two decimals) of the interval between the two strikes of a crossing
   pair, and inside that interval when both strikes are whole cents *)
C9_FlipWithinRoundedPair ==
  (ReturnedForSpot /\ CrossingPairs # {}) =>
    /\ Profile.gammaFlip # None
    /\ \E i \in CrossingPairs :
         /\ Profile.strikes[i - 1].strike - 5 <= Val(Profile.gammaFlip)
         /\ Val(Profile.gammaFlip) <= Profile.strikes[i].strike + 5
         /\ (Profile.strikes[i - 1].strike % 10 = 0 /\ Profile.strikes[i].strike % 10 = 0) =>
              /\ Profile.strikes[i - 1].strike <= Val(Profile.gammaFlip)
              /\ Val(Profile.gammaFlip) <= Profile.strikes[i].strike

(* C9 witness: a flip strictly inside the one crossing pair of a three-strike profile *)
C9_Witness ==
  /\ ReturnedForSpot
  /\ NumStrikes = 3
  /\ Cardinality(CrossingPairs) = 1
  /\ \E i \in CrossingPairs :
       /\ Profile.strikes[i - 1].strike < Val(Profile.gammaFlip)
       /\ Val(Profile.gammaFlip) < Profile.strikes[i].strike

(* the crossing pair whose interpolated point is nearest to spot, the earliest on a tie *)
NearestPair ==
  CHOOSE i \in CrossingPairs :
    \A j \in CrossingPairs :
      \/ ScaledGap(Interpolated(i), Interpolated(j)) < ScaledGap(Interpolated(j), Interpolated(i))
      \/ /\ ScaledGap(Interpolated(i), Interpolated(j)) = ScaledGap(Interpolated(j), Interpolated(i))
         /\ i <= j

(* C10: with more than one crossing, gammaFlip is the interpolated crossing nearest to
   spot, the earliest when distances tie, rounded to two decimals *)
C10_NearestCrossing ==
  (ReturnedForSpot /\ Cardinality(CrossingPairs) > 1) =>
    Profile.gammaFlip = Some(RoundedToCent(Interpolated(NearestPair)))

(* C10 witness: two crossings, the second nearer to spot than the first and rounding to a
   different value *)
C10_Witness ==
  /\ ReturnedForSpot
  /\ Cardinality(CrossingPairs) > 1
  /\ \E i \in CrossingPairs :
       /\ i < NearestPair
       /\ RoundedToCent(Interpolated(i)) # RoundedToCent(Interpolated(NearestPair))

(* C10 witness of the tie: two crossings equally far from spot, the earlier one returned *)
C10_TieWitness ==
  /\ ReturnedForSpot
  /\ \E i, j \in CrossingPairs :
       /\ i < j
       /\ NearestPair = i
       /\ ScaledGap(Interpolated(i), Interpolated(j)) = ScaledGap(Interpolated(j), Interpolated(i))
       /\ RoundedToCent(Interpolated(i)) # RoundedToCent(Interpolated(j))

(* calculateGEX has returned for the whole worked example at spot 102 *)
ExampleReturned ==
  /\ Returned
  /\ spotPrice = 102
  /\ Range(Val(chainData.callExpDateMap)) = Range(ExampleCalls)
  /\ Range(Val(chainData.putExpDateMap)) = Range(ExamplePuts)

(* C11: for the worked example calculateGEX yields netGex 18,727.2 and -3,121.2 (187272
   and -31212 in tenths), cumulative [18,727.2, 15,606], gammaFlip 105, callWall 100 and
   putWall 105 *)
C11_WorkedExample ==
  ExampleReturned =>
    /\ NumStrikes = 2
    /\ Profile.strikes[1].netGex = 187272
    /\ Profile.strikes[2].netGex = -31212
    /\ Profile.aggregateGex = <<187272, 156060>>
    /\ Profile.gammaFlip = Some(105)
    /\ Profile.callWall = Some(100)
    /\ Profile.putWall = Some(105)

(* what calculateGEX returns for the worked example: exposures ten times the spec's
   figures (gamma x OI x 100 x 102^2 x 0.01 is gamma x OI x 10404), no gamma flip, and
   both walls at 100 *)
WorkedExampleAsComputed ==
  ExampleReturned =>
    /\ NumStrikes = 2
    /\ Profile.strikes[1].strike = 100 /\ Profile.strikes[2].strike = 105
    /\ Profile.strikes[1].callGex = 5202000 /\ Profile.strikes[1].putGex = -3329280
    /\ Profile.strikes[1].netGex = 1872720
    /\ Profile.strikes[2].netGex = -312120
    /\ Profile.aggregateGex = <<1872720, 1560600>>
    /\ Profile.gammaFlip = None
    /\ Profile.callWall = Some(100)
    /\ Profile.putWall = Some(100)

(* C12: calculateGEX is never aborted by malformed contract data: for every chain with
   at least one strike entry it returns a profile, with one strike record per distinct
   strike of the chain, whatever the contract lists hold *)
C12_MalformedNeverAborts ==
  (phase # "chain" /\ AllEntries # <<>>) =>
    /\ phase = "returned"
    /\ gex # None
    /\ {Profile.strikes[i].strike : i \in 1..NumStrikes}
         = {parseFloat(AllEntries[i].strikeStr) : i \in DOMAIN AllEntries}

CallEntries == EntriesOf(chainData.callExpDateMap)

PutEntries == EntriesOf(chainData.putExpDateMap)

(* the entries of one side that are under the strike, whatever the expiration and spelling *)
EntriesAt(entries, strike) ==
  {i \in DOMAIN entries : parseFloat(entries[i].strikeStr) = strike}

(* the exposure of the entries that have a gamma, those without one left out *)
GammaExposure(entries, strike) ==
  SumOver([i \in DOMAIN entries |->
             IF entries[i].contracts[1].gamma = None THEN 0
             ELSE Val(entries[i].contracts[1].gamma)
                    * OrElse(entries[i].contracts[1].openInterest, 0) * spotPrice * spotPrice],
          {i \in EntriesAt(entries, strike) : entries[i].contracts[1].gamma # None})

OpenInterest(entries, strike) ==
  SumOver([i \in DOMAIN entries |-> OrElse(entries[i].contracts[1].openInterest, 0)],
          EntriesAt(entries, strike))

Volume(entries, strike) ==
  SumOver([i \in DOMAIN entries |-> OrElse(entries[i].contracts[1].totalVolume, 0)],
          EntriesAt(entries, strike))

(* C13: a contract without a gamma adds nothing to its strike's callGex/putGex (and so to
   netGex), while its openInterest and totalVolume, when present, are added to the
   strike's callOI/putOI and callVol/putVol *)
C13_MissingGammaCountsOI ==
  Returned =>
    \A i \in 1..NumStrikes :
      LET s == Profile.strikes[i] IN
        /\ s.callGex = GammaExposure(CallEntries, s.strike)
        /\ s.putGex = GammaExposure(PutEntries, s.strike)
        /\ s.netGex = GammaExposure(CallEntries, s.strike) + GammaExposure(PutEntries, s.strike)
        /\ s.callOI = OpenInterest(CallEntries, s.strike)
        /\ s.putOI = OpenInterest(PutEntries, s.strike)
        /\ s.callVol = Volume(CallEntries, s.strike)
        /\ s.putVol = Volume(PutEntries, s.strike)

(* C13 witness: a call without gamma (OI 3, volume 1) shares its strike with a call that
   has one: the strike's callGex is the other call's alone, its callOI and callVol count both *)
C13_Witness ==
  /\ Returned
  /\ spotPrice = 20
  /\ \E i, j \in DOMAIN CallEntries :
       /\ CallEntries[i].contracts[1].gamma = None
       /\ CallEntries[i].contracts[1].openInterest = Some(3)
       /\ CallEntries[j].contracts[1].gamma = Some(1)
       /\ parseFloat(CallEntries[i].strikeStr) = parseFloat(CallEntries[j].strikeStr)
  /\ \E k \in 1..NumStrikes :
       /\ Profile.strikes[k].callGex = 400
       /\ Profile.strikes[k].callOI = 4
       /\ Profile.strikes[k].callVol = 2

(* the sum of gamma x OI x spot^2 over the entries of one side under the strike, each
   gamma with the sign it came with, a missing gamma or OI as 0 *)
SignedExposure(entries, strike) ==
  SumOver([i \in DOMAIN entries |->
             OrElse(entries[i].contracts[1].gamma, 0)
               * OrElse(entries[i].contracts[1].openInterest, 0) * spotPrice * spotPrice],
          EntriesAt(entries, strike))

(* C19: every leg adds gamma x OI x 100 x spot^2 x 0.01 with gamma's own sign to its
   strike's callGex or putGex, legs of different expirations under one strike are summed,
   netGex = callGex + putGex, and with call gammas >= 0 and put gammas <= 0 every callGex
   is >= 0 and every putGex is <= 0 *)
C19_NativeSignPolicy ==
  Returned =>
    \A i \in 1..NumStrikes :
      LET s == Profile.strikes[i] IN
        /\ s.callGex = SignedExposure(CallEntries, s.strike)
        /\ s.putGex = SignedExposure(PutEntries, s.strike)
        /\ s.netGex = s.callGex + s.putGex
        /\ NativeSigns => (s.callGex >= 0 /\ s.putGex <= 0)

(* C19 witness: a put of negative gamma under two expirations of one strike, next to a
   call: putGex is the negative sum of both legs and netGex the signed total *)
C19_Witness ==
  /\ Returned
  /\ NativeSigns
  /\ spotPrice > 0
  /\ \E i, j \in DOMAIN PutEntries :
       /\ i # j
       /\ parseFloat(PutEntries[i].strikeStr) = parseFloat(PutEntries[j].strikeStr)
       /\ PutEntries[i].contracts[1].gamma = Some(-1)
       /\ PutEntries[j].contracts[1].gamma = Some(-1)
  /\ \E k \in 1..NumStrikes :
       /\ Profile.strikes[k].callGex > 0
       /\ Profile.strikes[k].putGex < 0
       /\ Profile.strikes[k].netGex = Profile.strikes[k].callGex + Profile.strikes[k].putGex
       /\ Profile.strikes[k].putGex = SignedExposure(PutEntries, Profile.strikes[k].strike)

(* the request has been answered *)
Done == http.pc = "done"

(* the request is for one of the two computing endpoints *)
Computing == http.path \in {"/api/gex", "/api/doomsday"}

HasEvent(e) == e \in Range(http.trace)

(* the response is an error response *)
ErrorResponse == Len(http.responses) = 1 /\ http.responses[1] \in {400, 404, 500}

(* the response is a success response *)
SuccessResponse == http.responses = <<200>>

(* C14: a request to /api/gex or /api/doomsday with no symbol, or whose quote gives no
   spot price or one that is zero or negative, ends in an error response, with no chain
   fetched, calculateGEX not run and no history written *)
C14_FailFast ==
  (/\ Done
   /\ Computing
   /\ \/ http.symbol = None
      \/ HasEvent("quote") /\ (IF http.last = None THEN TRUE ELSE Val(http.last) <= 0))
  => /\ ErrorResponse
     /\ ~HasEvent("chain")
     /\ ~HasEvent("calc")
     /\ ~HasEvent("store")
     /\ kv = Val(http.kvBefore)

(* C14, the part the code keeps: no symbol on either endpoint, a failed or empty quote,
   and a zero spot on /api/gex end the request in an error before any chain is fetched *)
FailFastAsCoded ==
  (/\ Done
   /\ Computing
   /\ \/ http.symbol = None
      \/ HasEvent("quote") /\ http.last = None
      \/ http.path = "/api/gex" /\ http.last = Some(0))
  => /\ ErrorResponse
     /\ ~HasEvent("chain")
     /\ ~HasEvent("calc")
     /\ ~HasEvent("store")
     /\ kv = Val(http.kvBefore)

(* the chain the handler gave calculateGEX normalizes to zero strikes *)
ZeroStrikes == AllEntries = <<>>

(* C15: when the chain has no strikes (both maps absent or empty) calculateGEX does not
   throw but returns null, and the handler answers the request with one error response,
   storing nothing *)
C15_EmptyChainNoProfile ==
  (Computing /\ phase \in {"returned", "threw"} /\ ZeroStrikes) =>
    /\ phase = "returned"
    /\ gex = None
    /\ HasEvent("calc") =>
         /\ Done
         /\ http.responses = <<500>>
         /\ ~HasEvent("store")
         /\ kv = Val(http.kvBefore)

(* C15 witness: /api/gex was given a chain of two empty maps and has answered with an error *)
C15_Witness ==
  /\ Done
  /\ http.path = "/api/gex"
  /\ HasEvent("calc")
  /\ chainData = [callExpDateMap |-> Some(<<>>), putExpDateMap |-> Some(<<>>)]
  /\ phase = "returned"
  /\ gex = None
  /\ http.responses = <<500>>

(* how many times the request did e *)
Count(e) == Cardinality({i \in DOMAIN http.trace : http.trace[i] = e})

(* what a request does once an exception is on its way to the catch: nothing but answer,
   once, with an error, the store left as the request found it *)
EndsAtThrow ==
  HasEvent("throw") =>
    /\ Done
    /\ http.trace[Len(http.trace)] = "throw"
    /\ Count("throw") = 1
    /\ http.responses = <<500>>
    /\ kv = Val(http.kvBefore)

(* C16, as claimed: a request attempts the token refresh, the quote lookup and the chain
   lookup at most once each, and after a failed one it calls the provider no more, writes
   nothing to the store and answers with exactly one error response *)
C16_EachProviderCallOnce ==
  /\ Count("token") <= 1
  /\ Count("quote") <= 1
  /\ Count("chain") <= 1
  /\ Len(http.responses) <= 1
  /\ EndsAtThrow

(* C16, amended: a request attempts the token refresh and the quote lookup at most once
   each and the chain lookup at most once, or twice on /api/doomsday (the expirations
   listing, then the chain of the nearest date); a failed provider call is the last thing
   the request does before its one error response: no further provider call, no store
   write *)
C16_NoRetryAfterFailure ==
  /\ Count("token") <= 1
  /\ Count("quote") <= 1
  /\ Count("chain") <= (IF http.path = "/api/doomsday" THEN 2 ELSE 1)
  /\ Len(http.responses) <= 1
  /\ EndsAtThrow

(* C16 witness: on /api/doomsday the token was refreshed, the quote and the expirations
   listing succeeded and the chain lookup failed: one error response, nothing stored *)
C16_Witness ==
  /\ Done
  /\ http.path = "/api/doomsday"
  /\ http.trace = <<"token", "put:access_token", "quote", "chain", "chain", "throw">>
  /\ http.responses = <<500>>
  /\ kv = Val(http.kvBefore)

(* a step in which calculateGEX runs *)
CalculateStep == phase = "chain" /\ phase' # "chain"

(* C18: calculateGEX is a pure function: calls given the same chain and spot return the
   same outcome whatever the store holds, whatever the time and whatever was computed
   before, and a call leaves the store, the clock and its input chain as they were *)
C18_CalculateIsPure ==
  /\ [](\A a, b \in http.calcLog :
          (a.chainData = b.chainData /\ a.spotPrice = b.spotPrice)
            => (a.phase = b.phase /\ a.gex = b.gex))
  /\ [][CalculateStep =>
          /\ kv' = kv
          /\ now' = now
          /\ chainData' = chainData
          /\ spotPrice' = spotPrice
          /\ phase' = (IF calculateGEXThrows(chainData) THEN "threw" ELSE "returned")
          /\ gex' = (IF calculateGEXThrows(chainData) THEN None
                     ELSE calculateGEX(chainData, spotPrice))]_vars

(* C18 witness: two requests gave calculateGEX the same chain and spot, at different
   times and over different store contents, and a profile was returned both times *)
C18_Witness ==
  \E a, b \in http.calcLog :
    /\ a.chainData = b.chainData
    /\ a.spotPrice = b.spotPrice
    /\ a.at # b.at
    /\ a.stored # b.stored
    /\ a.gex # None
    /\ a.gex = b.gex

(* the keys whose stored value the request has changed *)
ChangedKeys == {k \in Keys : kv[k] # Val(http.kvBefore)[k]}

(* the log under k is the log the request found there with one record appended and
   the trim to the cap applied *)
OneRecordAppended(k) ==
  LET before == ReadHistory(Val(http.kvBefore)[k])
      after  == ReadHistory(kv[k])
  IN  /\ after # <<>>
      /\ after = SliceLast(Append(before, after[Len(after)]), HistoryCap)
      /\ after[Len(after)].timestamp >= http.at

(* "calc", then "store", both in the trace of the request *)
StoredAfterComputed ==
  \E i, j \in DOMAIN http.trace :
    i < j /\ http.trace[i] = "calc" /\ http.trace[j] = "store"

(* C20: a /api/gex or /api/doomsday request answered with success has appended exactly
   one record to exactly one history log, after the profile was computed and before the
   response; a request answered with an error, and any request to another endpoint,
   leaves every history log as it was *)
C20_OneRecordPerSuccess ==
  Done =>
    IF Computing /\ SuccessResponse
    THEN /\ Cardinality(ChangedKeys) = 1
         /\ \A k \in ChangedKeys : OneRecordAppended(k)
         /\ StoredAfterComputed
         /\ Count("store") = 1
    ELSE kv = Val(http.kvBefore)

(* C20 witness: a successful /api/doomsday request after a successful /api/gex request:
   one record more in one log, the log of the first request untouched *)
C20_Witness ==
  /\ Done
  /\ http.served = 2
  /\ http.path = "/api/doomsday"
  /\ SuccessResponse
  /\ \E d \in 0..IsoDate(MaxNow) :
       /\ ChangedKeys = {HistoryKey(Doom("SPY"), d)}
       /\ Len(ReadHistory(kv[HistoryKey(Doom("SPY"), d)])) = 1
  /\ \E k \in Keys : k[2] = "SPY" /\ Val(http.kvBefore)[k] # None /\ kv[k] = Val(http.kvBefore)[k]

(* C20 witness at the cap: a successful /api/gex request found 96 records in its log and
   left 96, the oldest gone and its own record last *)
C20_CapWitness ==
  /\ Done
  /\ http.path = "/api/gex"
  /\ SuccessResponse
  /\ \E k \in ChangedKeys :
       /\ Len(ReadHistory(Val(http.kvBefore)[k])) = HistoryCap
       /\ Len(ReadHistory(kv[k])) = HistoryCap
       /\ OneRecordAppended(k)

(* the records appended since the start, each with the key it was appended under *)
Appends ==
  UNION {{[key |-> k, record |-> appended[k][i]] :
            i \in {j \in 1..Len(appended[k]) : appended[k][j].timestamp >= 0}} : k \in Keys}

(* an /api/iv-history request has been answered with the log it read *)
HistoryServed == Done /\ http.path = "/api/iv-history" /\ SuccessResponse

(* C17: history logs are scoped by (symbol, US Eastern calendar day): two appends for one
   symbol at instants of the same Eastern day go to the same log, a read never returns a
   record appended on another Eastern day, and a read of a (symbol, day) without a log
   returns the empty sequence *)
C17_ScopedByExchangeDay ==
  /\ \A a, b \in Appends :
       (a.key[2] = b.key[2] /\ EtDate(a.record.timestamp) = EtDate(b.record.timestamp))
         => a.key = b.key
  /\ HistoryServed =>
       /\ \A i \in DOMAIN http.body :
            http.body[i].timestamp >= 0 => EtDate(http.body[i].timestamp) = EtDate(http.at)
       /\ kv[Val(http.key)] = None => http.body = <<>>

(* what the code scopes by: the UTC calendar day on which the call started; a log is
   keyed by that day, a read returns the log of the UTC day of the read, and a read of a
   key without a log returns the empty sequence *)
ScopedByUtcDay ==
  /\ \A a \in Appends : a.key[3] <= IsoDate(a.record.timestamp)
  /\ HistoryServed =>
       /\ Val(http.key) = HistoryKey(LogName(http), IsoDate(http.at))
       /\ http.body = ReadHistory(kv[Val(http.key)])
       /\ kv[Val(http.key)] = None => http.body = <<>>

(* C22: at every adjacent pair classified as a zero crossing the interpolation
   denominator |cum[i-1]| + |cum[i]| is strictly positive and the ratio lies in [0, 1],
   also when one of the two cumulative values is exactly zero *)
C22_RatioDefined ==
  Returned =>
    \A i \in 2..NumStrikes :
      IsCrossing(Profile.aggregateGex[i - 1], Profile.aggregateGex[i]) =>
        /\ Abs(Profile.aggregateGex[i - 1]) + Abs(Profile.aggregateGex[i]) > 0
        /\ Ratio(Profile.aggregateGex[i - 1], Profile.aggregateGex[i]).den > 0
        /\ Ratio(Profile.aggregateGex[i - 1], Profile.aggregateGex[i]).num >= 0
        /\ Ratio(Profile.aggregateGex[i - 1], Profile.aggregateGex[i]).num
             <= Ratio(Profile.aggregateGex[i - 1], Profile.aggregateGex[i]).den

(* C22 witness: a curve that comes up from below zero to exactly zero (ratio 1) and
   later leaves zero downwards (ratio 0) *)
C22_Witness ==
  /\ Returned
  /\ \E i, j \in CrossingPairs :
       /\ i < j
       /\ Profile.aggregateGex[i - 1] < 0 /\ Profile.aggregateGex[i] = 0
       /\ Profile.aggregateGex[j - 1] = 0 /\ Profile.aggregateGex[j] < 0

(* the keys of the log named name, one for each day *)
KeysNamed(name) == {HistoryKey(name, IsoDate(t)) : t \in 0..MaxNow}

(* what a read of the log under k returns is what it returned when the request arrived *)
ReadsAsBefore(k) == ReadHistory(kv[k]) = ReadHistory(Val(http.kvBefore)[k])

(* C21: the history written by /api/doomsday for a symbol is kept under a log distinct
   from the one written by /api/gex for that symbol and from the /api/gex log of every
   other symbol: a doomsday request changes only the doomsday log of its symbol and
   nothing /api/iv-history returns without doom=1 for any symbol, and a /api/gex request
   changes only the log of its symbol and nothing /api/iv-history returns with doom=1 *)
C21_SeparateLogs ==
  Done =>
    /\ http.path = "/api/doomsday" =>
         /\ \A k \in ChangedKeys : k[2] = Doom(Val(http.symbol))
         /\ \A s \in UpperSymbols : \A k \in KeysNamed(s) : ReadsAsBefore(k)
    /\ http.path = "/api/gex" =>
         /\ \A k \in ChangedKeys : k[2] = Val(http.symbol)
         /\ \A s \in UpperSymbols : \A k \in KeysNamed(Doom(s)) : ReadsAsBefore(k)

(* a doomsday request for SPY has appended to SPY's doomsday log, after a /api/gex request
   whose symbol parameter was spelt like that log's name wrote a log of its own *)
C21_Witness ==
  /\ Done
  /\ http.path = "/api/doomsday"
  /\ http.symbol = Some("SPY")
  /\ SuccessResponse
  /\ \E k \in ChangedKeys : k \in KeysNamed(Doom("SPY"))
  /\ \E k \in KeysNamed(toUpperCase("SPY_doom")) :
       kv[k] # None /\ kv[k] = Val(http.kvBefore)[k]

(* the stored value is a text that JSON.parse rejects *)
Unparseable(stored) == stored # None /\ JsonParseThrows(Val(stored))

(* the request met a value it could not use: the get was rejected, or the value the
   request found under k is not JSON *)
MetUnreadable(k) == HasEvent("unreadable") \/ Unparseable(Val(http.kvBefore)[k])

(* C23: if the value stored under a history key cannot be read or parsed, getIVHistory
   returns the empty sequence and the read request succeeds, and storeIVHistory treats
   the log as empty and replaces the stored value with a log holding only the new
   record; the computing request then succeeds, unless the put itself is rejected *)
C23_UnreadableIsEmpty ==
  /\ (/\ Done
      /\ http.path = "/api/iv-history"
      /\ http.symbol # None
      /\ MetUnreadable(Val(http.key)))
       => SuccessResponse /\ http.body = <<>>
  /\ (/\ Done
      /\ Computing
      /\ HasEvent("store")
      /\ MetUnreadable(Val(http.key)))
       => IF HasEvent("throw")
          THEN kv = Val(http.kvBefore)
          ELSE /\ SuccessResponse
               /\ kv[Val(http.key)] # None
               /\ ~Unparseable(kv[Val(http.key)])
               /\ Len(ReadHistory(kv[Val(http.key)])) = 1
               /\ ReadHistory(kv[Val(http.key)])[1].timestamp >= http.at

(* a computing request found a value that is not JSON under its key, succeeded and left
   a log of one record there *)
C23_Witness ==
  /\ Done
  /\ Computing
  /\ SuccessResponse
  /\ HasEvent("store")
  /\ Unparseable(Val(http.kvBefore)[Val(http.key)])
  /\ Len(ReadHistory(kv[Val(http.key)])) = 1

(* a read request whose get was rejected has been answered with the empty history *)
C23_RejectedReadWitness ==
  /\ HistoryServed
  /\ HasEvent("unreadable")
  /\ http.body = <<>>
  /\ \E k \in Keys : k = Val(http.key) /\ ReadHistory(kv[k]) # <<>>

====
